---- MODULE Spec2Model ----
(***************************************************************************)
(* NanoLeafDisplay usermod (usermods/NanoLeaf_Display): a 4 digit display  *)
(* of 28 segments of 3 LEDs, driven through the host's strip object.       *)
(*                                                                         *)
(* The usermod object is modelled with its fields as variables and one     *)
(* action per handler the host calls: setup, connected, loop,              *)
(* handleOverlayDraw, readFromConfig.  The host calls setup() once, before *)
(* any other handler (pc = "constructed" until then).  The host's strip is *)
(* modelled by the LED range and the properties of each strip segment.     *)
(***************************************************************************)
EXTENDS Integers, Sequences, FiniteSets, TLC

(* ------------------------------------------------------------ constants *)
NUM_OF_SEGMENTS == 28
ADDR_LEDS_PER_SEG == 3
SEGS_PER_DIGIT == 7
NUM_DIGITS == 10
NUM_FIRST_LEDS == 3
dht11ReadingDelay == 10000
midSegmentIndex == NUM_OF_SEGMENTS \div 2

(* ---------------------------------------------------------------- bounds *)
MaxEpoch == 2      \* millis() takes the values k * dht11ReadingDelay + j, k <= MaxEpoch
MaxJitter == 2     \* ... with j <= MaxJitter

Times == { k * dht11ReadingDelay + j : k \in 0..MaxEpoch, j \in 0..MaxJitter }

(* C++ int division and remainder truncate towards zero. *)
CDiv(a, b) == IF a >= 0 THEN a \div b ELSE -((-a) \div b)
CMod(a, b) == a - b * CDiv(a, b)

(* ------------------------------------------------------ the glyph table *)
(* A row of DIGITS: the initialisers given, the rest of the                *)
(* NUM_OF_SEGMENTS columns zero-initialised.                               *)
Row(s) == s \o [i \in 1..(NUM_OF_SEGMENTS - Len(s)) |-> 0]

(* Mutant of DIGITS: the row of 4 lacks the top segment. *)
DIGITS_RowOf4Short ==
  << Row(<<3, -1, -1, -1, -1, -1, -1>>),
     Row(<<1, 2, 3, 5, 6, -1, -1>>),
     Row(<<0, 6, -1, -1, -1, -1, -1>>),
     Row(<<2, 6, -1, -1, -1, -1, -1>>),
     Row(<<1, 2, -1, -1, -1, -1, -1>>),
     Row(<<2, 4, -1, -1, -1, -1, -1>>),
     Row(<<4, -1, -1, -1, -1, -1, -1>>),
     Row(<<1, 2, 3, 6, -1, -1, -1>>),
     Row(<<-1, -1, -1, -1, -1, -1, -1>>),
     Row(<<2, -1, -1, -1, -1, -1, -1>> ) >>

DIGITS ==
  << Row(<<3, -1, -1, -1, -1, -1, -1>>),
     Row(<<1, 2, 3, 5, 6, -1, -1>>),
     Row(<<0, 6, -1, -1, -1, -1, -1>>),
     Row(<<2, 6, -1, -1, -1, -1, -1>>),
     Row(<<1, 2, 5, -1, -1, -1, -1>>),
     Row(<<2, 4, -1, -1, -1, -1, -1>>),
     Row(<<4, -1, -1, -1, -1, -1, -1>>),
     Row(<<1, 2, 3, 6, -1, -1, -1>>),
     Row(<<-1, -1, -1, -1, -1, -1, -1>>),
     Row(<<2, -1, -1, -1, -1, -1, -1>> ) >>

(* What DIGITS[value] reads when value is not an index of the table: the   *)
(* memory next to the table, whatever it holds.                            *)
GarbageRows == { Row(<<-1>>), Row(<<5, -1>>), Row(<<14, -1>>) }

(* The row setDigit reads for value; g is the memory read out of bounds. *)
DigitRow(value, g) == IF value \in 0..(NUM_DIGITS - 1) THEN DIGITS[value + 1] ELSE g

(* The entries setDigit's loop visits: i = 0 .. NUM_DIGITS-1, stopping at  *)
(* the first -1.                                                           *)
RECURSIVE BlankListFrom(_, _)
BlankListFrom(row, i) ==
  IF i >= NUM_DIGITS THEN <<>>
  ELSE IF row[i + 1] = -1 THEN <<>>
  ELSE <<row[i + 1]>> \o BlankListFrom(row, i + 1)

BlankList(row) == BlankListFrom(row, 0)

SeqToSet(s) == { s[i] : i \in 1..Len(s) }

(* Mutant of DigitIndex: digit 0 taken as the rightmost digit. *)
DigitIndex_FromRight(digit) == digit * SEGS_PER_DIGIT

(* digitIndex of setDigit: the first segment of digit position digit. *)
DigitIndex(digit) == NUM_OF_SEGMENTS - (SEGS_PER_DIGIT + (digit * SEGS_PER_DIGIT))

(* --------------------------------------------------------------- state *)
VARIABLES
  inTwoToneMode, inSeriesMode, inSecsMinsMode, inManualMode, inTempHumidMode,
  digitValue,          \* <<digit0Value, digit1Value, digit2Value, digit3Value>>
  lastTwoToneMode, lastInSeriesMode, lastTempHumidMode,
  currentHour, currentMin, currentSec, currentTemp, currentHumid,
  lastDHT11TimeRead,
  segments,            \* segments[i]: the strip segment id the handle points to
  firstSeg, secondSeg, thirdSeg,
  ranges,              \* strip: id -> <<start, stop>> of the LED range
  segs,                \* strip: id -> properties of the segment
  now,                 \* millis()
  pc,                  \* "constructed" until setup() has run, then "running"
  wild,                \* a write through an out-of-bounds segments[] entry happened
  frame,               \* what the most recent render pass did
  readTimes,           \* millis() of the last two reads of the sensor driver
  lastCfg              \* what the most recent setup or readFromConfig call decided

flagVars == <<inTwoToneMode, inSeriesMode, inSecsMinsMode, inManualMode, inTempHumidMode>>
lastVars == <<lastTwoToneMode, lastInSeriesMode, lastTempHumidMode>>
timeVars == <<currentHour, currentMin, currentSec>>
sensorVars == <<currentTemp, currentHumid, lastDHT11TimeRead, readTimes>>
handleVars == <<segments, firstSeg, secondSeg, thirdSeg>>
vars == <<flagVars, digitValue, lastVars, timeVars, sensorVars, handleVars,
          ranges, segs, now, pc, wild, frame, lastCfg>>

SegIds == 0..(NUM_FIRST_LEDS + NUM_OF_SEGMENTS - 1)
NoHandle == -1

(* Properties of a strip segment that the usermod reads or writes. *)
Props(c, m, sp, it, pal, o) ==
  [colors |-> c, mode |-> m, speed |-> sp, intensity |-> it, palette |-> pal, opt0 |-> o]

(* Colour settings of the three colour sources (set by the user in the UI). *)
SourceProps(k) == Props(<<10 + k, 20 + k, 30 + k>>, 40 + k, 50 + k, 60 + k, 70 + k, TRUE)
DisplayProps == Props(<<5, 6, 7>>, 1, 2, 3, 4, TRUE)


(* ------------------------------------------------------ the host strip *)
(* strip.setSegment(n, i1, i2): range n becomes LEDs [i1, i2). *)
setSegment(r, n, i1, i2) == [r EXCEPT ![n] = <<i1, i2>>]

(* strip.resetSegments(): every range is dropped. *)
resetSegments(r) == [n \in SegIds |-> <<0, 0>>]

(* --------------------------------------------------------- SegmentMapper *)
RECURSIVE setFirstLeds(_, _)
setFirstLeds(r, i) ==
  IF i >= NUM_FIRST_LEDS THEN r
  ELSE setFirstLeds(setSegment(r, i, i, i + 1), i + 1)

RECURSIVE setSegmentsFrom(_, _, _, _, _, _)
setSegmentsFrom(r, i, segStart, segEnd, addrLedsPerSeg, numOfSegments) ==
  IF i >= numOfSegments THEN r
  ELSE setSegmentsFrom(setSegment(r, i + NUM_FIRST_LEDS, segStart, segEnd), i + 1,
                       segStart + addrLedsPerSeg, segEnd + addrLedsPerSeg,
                       addrLedsPerSeg, numOfSegments)

(* Mutant of setSegments: the display ranges start where range 3 started. *)
setSegments_AfterLast(r, addrLedsPerSeg, numOfSegments) ==
  setSegmentsFrom(setFirstLeds(r, 0), 0, NUM_FIRST_LEDS + r[NUM_FIRST_LEDS][1],
                  addrLedsPerSeg + NUM_FIRST_LEDS + r[NUM_FIRST_LEDS][1],
                  addrLedsPerSeg, numOfSegments)

(* setSegments(addrLedsPerSeg, numOfSegments): the segmented wiring. *)
setSegments(r, addrLedsPerSeg, numOfSegments) ==
  setSegmentsFrom(setFirstLeds(r, 0), 0, NUM_FIRST_LEDS, addrLedsPerSeg + NUM_FIRST_LEDS,
                  addrLedsPerSeg, numOfSegments)

(* The flat wiring of readFromConfig on entering the series mode. *)
wireFlat(r) ==
  setSegment(resetSegments(r), 0, NUM_FIRST_LEDS, NUM_FIRST_LEDS + (NUM_OF_SEGMENTS * 3))

(* getSegments(numOfSegments): the handles fetched. *)
getSegments(numOfSegments) == [i \in 0..(numOfSegments - 1) |-> i + NUM_FIRST_LEDS]

(* A render pass works on rs = [segs, blanked, dark, wild]:                 *)
(* segs the strip's segment properties, blanked the display segments        *)
(* turned off, dark the LEDs written black, wild set by a write through a   *)
(* handle that is not one.                                                  *)
RenderStart == [segs |-> segs, blanked |-> {}, dark |-> {}, wild |-> wild]

(* segCopyProps(seg1, seg2, seg1Id) with h1, h2 the handles passed. *)
segCopyProps(rs, h1, h2, seg1Id) ==
  IF h1 \notin SegIds \/ h2 \notin SegIds THEN [rs EXCEPT !.wild = TRUE]
  ELSE LET src == rs.segs[h2] IN
       [rs EXCEPT !.segs =
          [[[@ EXCEPT ![h1].colors[1] = src.colors[1]]
               EXCEPT ![seg1Id + NUM_FIRST_LEDS].mode = src.mode]
               EXCEPT ![h1].speed = src.speed,
                      ![h1].intensity = src.intensity,
                      ![h1].palette = src.palette]]

(* turnOffSeg, called on the handle segments[segId] *)
turnOffSeg(rs, segId) ==
  IF segId \notin 0..(NUM_OF_SEGMENTS - 1) \/ segments[segId] \notin SegIds
  THEN [rs EXCEPT !.wild = TRUE]
  ELSE [rs EXCEPT !.segs[segments[segId]].colors = <<0, 0, 0>>,
                  !.segs[segments[segId]].opt0 = FALSE,
                  !.blanked = @ \cup {segId}]

(* Mutant of turnOffSegPixels: the colour-source LEDs are not skipped. *)
turnOffSegPixels_NoOffset(rs, segment) ==
  LET startIndex == segment * ADDR_LEDS_PER_SEG IN
  [rs EXCEPT !.dark = @ \cup { startIndex + i : i \in 0..(ADDR_LEDS_PER_SEG - 1) }]

(* turnOffSegPixels(segment) *)
turnOffSegPixels(rs, segment) ==
  LET startIndex == NUM_FIRST_LEDS + (segment * ADDR_LEDS_PER_SEG) IN
  [rs EXCEPT !.dark = @ \cup { startIndex + i : i \in 0..(ADDR_LEDS_PER_SEG - 1) }]

(* Mutant of setDigitEntry: the series branch is missing. *)
setDigitEntry_NoSeries(rs, idx) ==
  IF inTwoToneMode \/ inTempHumidMode THEN turnOffSeg(rs, idx) ELSE rs

(* The body of setDigit's loop for one entry of the row. *)
setDigitEntry(rs, idx) ==
  IF inTwoToneMode \/ inTempHumidMode THEN turnOffSeg(rs, idx)
  ELSE IF inSeriesMode THEN turnOffSegPixels(rs, idx)
  ELSE rs

RECURSIVE setDigitFrom(_, _, _, _)
setDigitFrom(rs, digitIndex, row, i) ==
  IF i >= NUM_DIGITS THEN rs
  ELSE IF row[i + 1] = -1 THEN rs
  ELSE setDigitFrom(setDigitEntry(rs, digitIndex + row[i + 1]), digitIndex, row, i + 1)

(* setDigit(digit, value); g is what an out-of-bounds DIGITS[value] reads. *)
setDigit(rs, digit, value, g) == setDigitFrom(rs, DigitIndex(digit), DigitRow(value, g), 0)

(* The four setDigit calls of a render pass, positions 0..3 in order. *)
setDigits(rs, vals, g) ==
  setDigit(setDigit(setDigit(setDigit(rs, 0, vals[1], g[0]), 1, vals[2], g[1]),
                    2, vals[3], g[2]), 3, vals[4], g[3])

(* One choice of out-of-bounds memory per digit position; positions whose  *)
(* value is an index of the table read the table.                          *)
GarbageChoices(vals) ==
  LET out == { p \in 0..3 : vals[p + 1] \notin 0..(NUM_DIGITS - 1) } IN
  { [p \in 0..3 |-> IF p \in out THEN h[p] ELSE <<>>] : h \in [out -> GarbageRows] }

(* ------------------------------------------------------ DisplayModeEngine *)
(* Mutant of twoToneSource: the midpoint segment falls to the lower half. *)
twoToneSource_MidLow(i) == IF i > midSegmentIndex THEN firstSeg ELSE secondSeg

(* The colour source twoTone copies onto display segment i. *)
twoToneSource(i) == IF i >= midSegmentIndex THEN firstSeg ELSE secondSeg

RECURSIVE twoToneCopy(_, _)
twoToneCopy(rs, i) ==
  IF i >= NUM_OF_SEGMENTS THEN rs
  ELSE twoToneCopy(segCopyProps(rs, segments[i], twoToneSource(i), i), i + 1)

(* Mutant of tempHumidSource: temperature 0 counts as positive. *)
tempHumidSource_ZeroPositive(i, temp) ==
  IF i >= midSegmentIndex
  THEN (IF temp >= 0 THEN firstSeg ELSE secondSeg)
  ELSE thirdSeg

(* The colour source setTempHumidColors copies onto display segment i. *)
tempHumidSource(i, temp) ==
  IF i >= midSegmentIndex
  THEN (IF temp > 0 THEN firstSeg ELSE secondSeg)
  ELSE thirdSeg

RECURSIVE setTempHumidColors(_, _, _)
setTempHumidColors(rs, i, temp) ==
  IF i >= NUM_OF_SEGMENTS THEN rs
  ELSE setTempHumidColors(segCopyProps(rs, segments[i], tempHumidSource(i, temp), i),
                          i + 1, temp)

(* Mutant of displayTimeValues: the clock and the secs-mins digits swapped. *)
displayTimeValues_ModesSwapped(manual, secsMins, dv, h, m, s) ==
  IF manual THEN dv
  ELSE IF secsMins THEN <<CDiv(h, 10), CMod(h, 10), CDiv(m, 10), CMod(m, 10)>>
  ELSE <<CDiv(m, 10), CMod(m, 10), CDiv(s, 10), CMod(s, 10)>>

(* Mutant of displayTimeValues: the manual flag is not consulted. *)
displayTimeValues_NoManual(manual, secsMins, dv, h, m, s) ==
  IF secsMins THEN <<CDiv(m, 10), CMod(m, 10), CDiv(s, 10), CMod(s, 10)>>
  ELSE <<CDiv(h, 10), CMod(h, 10), CDiv(m, 10), CMod(m, 10)>>

(* The values displayTime passes to setDigit at positions 0..3. *)
displayTimeValues(manual, secsMins, dv, h, m, s) ==
  IF manual THEN dv
  ELSE IF secsMins THEN <<CDiv(m, 10), CMod(m, 10), CDiv(s, 10), CMod(s, 10)>>
  ELSE <<CDiv(h, 10), CMod(h, 10), CDiv(m, 10), CMod(m, 10)>>

(* The values displayTempAndHumid passes to setDigit at positions 0..3. *)
tempHumidValues(temp, humid) ==
  <<CDiv(temp, 10), CMod(temp, 10), CDiv(humid, 10), CMod(humid, 10)>>

(* ------------------------------------------------------------ ValueSource *)
(* The guard of readTempAndHumid.  millis() is unsigned long, so the        *)
(* difference is taken modulo 2^32: with last ahead of t it wraps to a      *)
(* value far above the delay.                                               *)
readDue(t, last) == IF t >= last THEN (t - last) > dht11ReadingDelay ELSE TRUE

Last2(s) == IF Len(s) > 2 THEN SubSeq(s, Len(s) - 1, Len(s)) ELSE s


(* ----------------------------------------------------------------- inputs *)
(* hour, minute, second of localTime as the clock service gives them. *)
ClockInputs == { <<23, 59, 7>>, <<9, 5, 0>> }

(* readTemperature(), readHumidity() as the sensor driver gives them. *)
SensorInputs == { <<23, 45>>, <<0, 60>>, <<-3, 45>>, <<7, 100>> }

(* The four "DigitN value" fields of a stored configuration. *)
DigitInputs == { <<1, 2, 3, 4>>, <<0, 12, -1, 9>> }

(* A stored configuration: top is whether the "NanoLeafDisplay" object is   *)
(* there; each field is {} when its key is absent, {v} when it holds v.     *)
FullCfg(f, t) ==
  [top |-> TRUE, tt |-> {f[1]}, ser |-> {f[2]}, sm |-> {f[3]}, man |-> {f[4]},
   d |-> [i \in 1..4 |-> {t[i]}], th |-> {f[5]}]

NullCfg ==
  [top |-> FALSE, tt |-> {}, ser |-> {}, sm |-> {}, man |-> {},
   d |-> [i \in 1..4 |-> {}], th |-> {}]

(* c with its k-th field (in the order readFromConfig reads them) removed. *)
DropField(c, k) ==
  CASE k = 1 -> [c EXCEPT !.tt = {}]
    [] k = 2 -> [c EXCEPT !.ser = {}]
    [] k = 3 -> [c EXCEPT !.sm = {}]
    [] k = 4 -> [c EXCEPT !.man = {}]
    [] k \in 5..8 -> [c EXCEPT !.d[k - 4] = {}]
    [] k = 9 -> [c EXCEPT !.th = {}]

AllFlags(b) == [i \in 1..5 |-> b]

CfgInputs ==
  { FullCfg(f, t) : f \in [1..5 -> BOOLEAN], t \in DigitInputs }
    \cup { NullCfg }
    \cup { DropField(FullCfg(AllFlags(b), <<1, 2, 3, 4>>), k) : b \in BOOLEAN, k \in 1..9 }

(* getJsonValue(top[key], var): the value var has afterwards, and the result. *)
getJsonValue(var, f) == IF f = {} THEN var ELSE CHOOSE x \in f : TRUE
hasJsonValue(f) == f # {}

(* Mutant of configComplete: only the section is looked at. *)
configComplete_SectionOnly(cfg) == cfg.top

(* configComplete of readFromConfig. *)
configComplete(cfg) ==
  /\ cfg.top
  /\ hasJsonValue(cfg.tt) /\ hasJsonValue(cfg.ser) /\ hasJsonValue(cfg.sm)
  /\ hasJsonValue(cfg.man)
  /\ \A i \in 1..4 : hasJsonValue(cfg.d[i])
  /\ hasJsonValue(cfg.th)

(* Mutant of rewireAction: the two-tone and temperature test comes first. *)
rewireAction_SegmentedFirst(ser, lastSer, tt, lastTT, th, lastTH) ==
  IF (tt /\ (lastTT # tt)) \/ (th /\ (lastTH # th)) THEN "segmented"
  ELSE IF ser /\ (lastSer # ser) THEN "flat"
  ELSE "none"

(* The re-wiring readFromConfig decides on, from the flags just read and    *)
(* the flags of the previous call.                                          *)
rewireAction(ser, lastSer, tt, lastTT, th, lastTH) ==
  IF ser /\ (lastSer # ser) THEN "flat"
  ELSE IF (tt /\ (lastTT # tt)) \/ (th /\ (lastTH # th)) THEN "segmented"
  ELSE "none"

(* ------------------------------------------------------------------ Init *)
NoFrame ==
  [path |-> "none", values |-> <<>>, blanked |-> {}, dark |-> {}, temp |-> 0, humid |-> 0]

Init ==
  /\ inTwoToneMode = TRUE /\ inSeriesMode = FALSE /\ inSecsMinsMode = FALSE
  /\ inManualMode = FALSE /\ inTempHumidMode = FALSE
  /\ digitValue = <<0, 0, 0, 0>>
  /\ lastTwoToneMode = TRUE /\ lastInSeriesMode = FALSE /\ lastTempHumidMode = FALSE
  /\ currentHour = 0 /\ currentMin = 0 /\ currentSec = 0
  /\ currentTemp = 0 /\ currentHumid = 0
  /\ lastDHT11TimeRead = 0
  /\ segments = [i \in 0..(NUM_OF_SEGMENTS - 1) |-> NoHandle]
  /\ firstSeg = NoHandle /\ secondSeg = NoHandle /\ thirdSeg = NoHandle
  /\ ranges = [n \in SegIds |-> <<0, 0>>]
  /\ segs = [n \in SegIds |-> IF n < NUM_FIRST_LEDS THEN SourceProps(n) ELSE DisplayProps]
  /\ now = 0
  /\ pc = "constructed"
  /\ wild = FALSE
  /\ frame = NoFrame
  /\ readTimes = <<>>
  /\ lastCfg = [name |-> "none", rewire |-> "none", seriesOn |-> FALSE,
                twoToneOn |-> FALSE, tempHumidOn |-> FALSE, complete |-> FALSE]

(* --------------------------------------------------------------- actions *)
(* The handles getSegments stores. *)
FetchHandles ==
  /\ segments' = getSegments(NUM_OF_SEGMENTS)
  /\ firstSeg' = 0 /\ secondSeg' = 1 /\ thirdSeg' = 2

(* A read of the sensor driver at millis() = now. *)
SensorRead(sens) ==
  /\ currentTemp' = sens[1]
  /\ currentHumid' = sens[2]
  /\ readTimes' = Last2(Append(readTimes, now))

(* readTempAndHumid() *)
readTempAndHumid(sens) ==
  IF readDue(now, lastDHT11TimeRead)
  THEN lastDHT11TimeRead' = now /\ SensorRead(sens)
  ELSE UNCHANGED sensorVars

(* updateTime() *)
updateTime(clk) ==
  currentHour' = clk[1] /\ currentMin' = clk[2] /\ currentSec' = clk[3]

(* setup(), with initDHT11Sensor() *)
Setup(Sens) ==
  /\ pc = "constructed"
  /\ pc' = "running"
  /\ IF inTwoToneMode \/ inTempHumidMode
     THEN /\ ranges' = setSegments(ranges, ADDR_LEDS_PER_SEG, NUM_OF_SEGMENTS)
          /\ FetchHandles
     ELSE UNCHANGED <<ranges, handleVars>>
  /\ \E sens \in Sens : SensorRead(sens)
  /\ lastCfg' = [name |-> "setup",
                 rewire |-> IF inTwoToneMode \/ inTempHumidMode THEN "segmented" ELSE "none",
                 seriesOn |-> FALSE, twoToneOn |-> FALSE, tempHumidOn |-> FALSE,
                 complete |-> FALSE]
  /\ UNCHANGED <<flagVars, digitValue, lastVars, timeVars, lastDHT11TimeRead,
                 segs, now, wild, frame>>

(* connected() *)
Connected(Clks, Sens) ==
  /\ pc = "running"
  /\ \E clk \in Clks, sens \in Sens :
       updateTime(clk) /\ readTempAndHumid(sens)
  /\ UNCHANGED <<flagVars, digitValue, lastVars, handleVars, ranges, segs, now, pc,
                 wild, frame, lastCfg>>

(* displayTime() on the render state rs0, as the render pass path. *)
displayTime(rs0, path, clk) ==
  LET vals == displayTimeValues(inManualMode, inSecsMinsMode, digitValue,
                                clk[1], clk[2], clk[3])
  IN /\ rs0.dark = {}          \* no pixel is written before the digits are drawn
     /\ IF inManualMode THEN UNCHANGED timeVars ELSE updateTime(clk)
     /\ \E g \in GarbageChoices(vals) :
          LET rs == setDigits(rs0, vals, g) IN
          /\ segs' = rs.segs
          /\ wild' = rs.wild
          /\ frame' = [path |-> path, values |-> vals, blanked |-> rs.blanked,
                       dark |-> rs.dark, temp |-> 0, humid |-> 0]

(* twoTone() *)
twoTone(clk) ==
  /\ displayTime(twoToneCopy(RenderStart, 0), "twoTone", clk)
  /\ UNCHANGED sensorVars

(* displayTempAndHumid() *)
displayTempAndHumid(sens) ==
  LET due == readDue(now, lastDHT11TimeRead)
      temp == IF due THEN sens[1] ELSE currentTemp
      humid == IF due THEN sens[2] ELSE currentHumid
      rs0 == setTempHumidColors(RenderStart, 0, temp)
      vals == tempHumidValues(temp, humid)
  IN /\ readTempAndHumid(sens)
     /\ \E g \in GarbageChoices(vals) :
          LET rs == setDigits(rs0, vals, g) IN
          /\ segs' = rs.segs
          /\ wild' = rs.wild
          /\ frame' = [path |-> "tempHumid", values |-> vals, blanked |-> rs.blanked,
                       dark |-> rs.dark, temp |-> temp, humid |-> humid]
     /\ UNCHANGED timeVars

(* loop() *)
Loop(Clks, Sens) ==
  /\ pc = "running"
  /\ IF inTwoToneMode THEN \E clk \in Clks : twoTone(clk)
     ELSE IF inTempHumidMode THEN \E sens \in Sens : displayTempAndHumid(sens)
     ELSE UNCHANGED <<timeVars, sensorVars, segs, wild, frame>>
  /\ UNCHANGED <<flagVars, digitValue, lastVars, handleVars, ranges, now, pc, lastCfg>>

(* handleOverlayDraw(), with inSeries() *)
HandleOverlayDraw(Clks) ==
  /\ pc = "running"
  /\ \E clk \in Clks :
       IF inSeriesMode THEN displayTime(RenderStart, "series", clk)
       ELSE UNCHANGED <<timeVars, segs, wild, frame>>
  /\ UNCHANGED <<flagVars, digitValue, lastVars, sensorVars, handleVars, ranges, now,
                 pc, lastCfg>>

(* Mutant of addToConfig: the digit values are stored one key further on. *)
addToConfig_DigitKeysShifted ==
  FullCfg(<<inTwoToneMode, inSeriesMode, inSecsMinsMode, inManualMode, inTempHumidMode>>,
          <<digitValue[4], digitValue[1], digitValue[2], digitValue[3]>>)

(* addToConfig(root): the stored configuration it writes.  "Digit1 value"   *)
(* .. "Digit4 value" hold digit0Value .. digit3Value, the keys under which  *)
(* readFromConfig looks for them.                                           *)
addToConfig ==
  FullCfg(<<inTwoToneMode, inSeriesMode, inSecsMinsMode, inManualMode, inTempHumidMode>>,
          digitValue)

(* readFromConfig(root), root one of Cfgs; name tells what the host called. *)
ReadConfig(name, Cfgs) ==
  /\ pc = "running"
  /\ \E cfg \in Cfgs :
       LET tt == getJsonValue(inTwoToneMode, cfg.tt)
           ser == getJsonValue(inSeriesMode, cfg.ser)
           th == getJsonValue(inTempHumidMode, cfg.th)
           rewire == rewireAction(ser, lastInSeriesMode, tt, lastTwoToneMode,
                                  th, lastTempHumidMode)
       IN /\ inTwoToneMode' = tt
          /\ inSeriesMode' = ser
          /\ inSecsMinsMode' = getJsonValue(inSecsMinsMode, cfg.sm)
          /\ inManualMode' = getJsonValue(inManualMode, cfg.man)
          /\ digitValue' = [i \in 1..4 |-> getJsonValue(digitValue[i], cfg.d[i])]
          /\ inTempHumidMode' = th
          /\ IF rewire = "flat"
             THEN ranges' = wireFlat(ranges) /\ UNCHANGED handleVars
             ELSE IF rewire = "segmented"
             THEN /\ ranges' = setSegments(ranges, ADDR_LEDS_PER_SEG, NUM_OF_SEGMENTS)
                  /\ FetchHandles
             ELSE UNCHANGED <<ranges, handleVars>>
          /\ lastTwoToneMode' = tt
          /\ lastInSeriesMode' = ser
          /\ lastTempHumidMode' = th
          /\ lastCfg' = [name |-> name, rewire |-> rewire,
                         seriesOn |-> ~inSeriesMode /\ ser,
                         twoToneOn |-> ~inTwoToneMode /\ tt,
                         tempHumidOn |-> ~inTempHumidMode /\ th,
                         complete |-> configComplete(cfg)]
  /\ frame' = NoFrame
  /\ UNCHANGED <<timeVars, sensorVars, segs, now, pc, wild>>

(* readFromConfig(root) *)
ReadFromConfig(Cfgs) == ReadConfig("readFromConfig", Cfgs)

(* addToConfig(root) and then readFromConfig(root) on what it stored. *)
SaveThenLoad == ReadConfig("saveLoad", {addToConfig})

(* millis() advances between two handler calls. *)
Tick ==
  /\ \E t \in Times : t > now /\ now' = t
  /\ UNCHANGED <<flagVars, digitValue, lastVars, timeVars, sensorVars, handleVars,
                 ranges, segs, pc, wild, frame, lastCfg>>

Next ==
  \/ Setup(SensorInputs)
  \/ Connected(ClockInputs, SensorInputs)
  \/ Loop(ClockInputs, SensorInputs)
  \/ HandleOverlayDraw(ClockInputs)
  \/ ReadFromConfig(CfgInputs)
  \/ Tick

Spec == Init /\ [][Next]_vars

(* The render passes: setup, then configuration updates to any setting of   *)
(* the five mode flags, then render passes with every clock and sensor      *)
(* reading, at one instant of millis().                                     *)
RenderCfgs == { FullCfg(f, <<1, 2, 3, 4>>) : f \in [1..5 -> BOOLEAN] }

(* A configuration update before the first render pass that follows it. *)
ConfigureThenRender(Cfgs) == frame = NoFrame /\ ReadFromConfig(Cfgs)

NextRender ==
  \/ Setup(SensorInputs)
  \/ Loop(ClockInputs, SensorInputs)
  \/ HandleOverlayDraw(ClockInputs)
  \/ ConfigureThenRender(RenderCfgs)

SpecRender == Init /\ [][NextRender]_vars


(* The configuration updates alone: every stored configuration of           *)
(* CfgInputs, in any order, after setup.                                    *)
NextConfig ==
  \/ Setup(SensorInputs)
  \/ ReadFromConfig(CfgInputs)
  \/ SaveThenLoad

SpecConfig == Init /\ [][NextConfig]_vars

(* The sensor reads over time: setup, connected and loop at any of Times,   *)
(* with the loop in the two-tone and in the temperature and humidity mode.  *)
TimedSensors == { <<23, 45>>, <<24, 50>> }
TimedClocks == { <<23, 59, 7>> }
TimedCfgs ==
  { FullCfg(<<TRUE, FALSE, FALSE, FALSE, FALSE>>, <<1, 2, 3, 4>>),
    FullCfg(<<FALSE, FALSE, FALSE, FALSE, TRUE>>, <<1, 2, 3, 4>>) }

NextSensor ==
  \/ Setup(TimedSensors)
  \/ Connected(TimedClocks, TimedSensors)
  \/ Loop(TimedClocks, TimedSensors)
  \/ ReadFromConfig(TimedCfgs)
  \/ Tick

SpecSensor == Init /\ [][NextSensor]_vars


(* The clock: render passes with the Manual flag clear, in the clock and    *)
(* the secs-mins mode, on the two-tone and the series path, with clock      *)
(* readings in which every hour 0..23, every minute and every second 0..59  *)
(* occurs.  A pass starts from a strip on which no segment was turned off   *)
(* before.                                                                  *)
AllClocks == { <<k % 24, k, 59 - k>> : k \in 0..59 }
ClockCfgs ==
  { FullCfg(<<tt, ser, sm, FALSE, FALSE>>, <<1, 2, 3, 4>>) : tt, ser, sm \in BOOLEAN }

StripUntouched == \A n \in SegIds : segs[n].opt0

NextClock ==
  \/ Setup(TimedSensors)
  \/ (StripUntouched /\ Loop(AllClocks, TimedSensors))
  \/ (StripUntouched /\ HandleOverlayDraw(AllClocks))
  \/ ConfigureThenRender(ClockCfgs)

SpecClock == Init /\ [][NextClock]_vars

(* ================================================================ claims *)
(* The documented glyph table: the offsets blanked for each value 0..9. *)
DocumentedBlank ==
  << {3}, {1, 2, 3, 5, 6}, {0, 6}, {2, 6}, {1, 2, 5}, {2, 4}, {4}, {1, 2, 3, 6}, {}, {2} >>

InTable(vals) == \A p \in 1..Len(vals) : vals[p] \in 0..9

(* The display segments a render pass turned off, by either wiring's means. *)
Drawn(f) == f.blanked \cup { (l - 3) \div 3 : l \in f.dark }

(* The display segments the documented table blanks for the values vals. *)
DocumentedSegs(vals) ==
  UNION { { (28 - 7 * p) + o : o \in DocumentedBlank[vals[p] + 1] } : p \in 1..4 }

IsOff(sp) == sp.colors = <<0, 0, 0>> /\ ~sp.opt0

SegmentPath == inTwoToneMode \/ inTempHumidMode

(* C1: for every value v in 0..9 the offsets read from DIGITS[v] up to the  *)
(* first -1 are exactly the documented set, within 0..6 and without         *)
(* repeats, the table has 10 rows, and every render pass whose four values  *)
(* are in 0..9 turns off, in each digit, exactly the documented offsets.    *)
C1_GlyphTable ==
  /\ Len(DIGITS) = 10
  /\ \A v \in 0..9 :
       LET l == BlankList(DIGITS[v + 1]) IN
       /\ SeqToSet(l) = DocumentedBlank[v + 1]
       /\ SeqToSet(l) \subseteq 0..6
       /\ Cardinality(SeqToSet(l)) = Len(l)
  /\ (frame.path # "none" /\ InTable(frame.values)) =>
       \A p \in 0..3 :
         { s - (28 - 7 * (p + 1)) :
             s \in Drawn(frame) \cap ((28 - 7 * (p + 1))..(28 - 7 * (p + 1) + 6)) }
           = DocumentedBlank[frame.values[p + 1] + 1]

(* C1 witness: a two-tone pass drew 1, 2, 3, 4 with the documented offsets. *)
C1_Witness ==
  /\ frame.path = "twoTone"
  /\ frame.values = <<1, 2, 3, 4>>
  /\ frame.blanked = {22, 23, 24, 26, 27} \cup {14, 20} \cup {9, 13} \cup {1, 2, 5}

(* C2: on the per-segment path, for every position d in 0..3 and value v in *)
(* 0..9, setDigit(d, v) turns off exactly the segments base + o, o in the   *)
(* blank set of v, base = 28 - 7 * (d + 1); these lie in 0..27; every other *)
(* strip segment keeps its properties; value 0 at position 0 turns off      *)
(* segment 24 (base 21, offset 3) alone.                                    *)
C2_SetDigitFrame ==
  (pc = "running" /\ SegmentPath) =>
    /\ \A d \in 0..3, v \in 0..9 :
         LET rs == setDigit(RenderStart, d, v, <<>>)
             base == 28 - 7 * (d + 1)
             off == { base + o : o \in DocumentedBlank[v + 1] }
         IN /\ rs.blanked = off
            /\ off \subseteq 0..27
            /\ off \subseteq base..(base + 6)
            /\ rs.dark = {}
            /\ rs.wild = wild
            /\ \A n \in SegIds :
                 IF (n - 3) \in off THEN IsOff(rs.segs[n]) ELSE rs.segs[n] = segs[n]
    /\ setDigit(RenderStart, 0, 0, <<>>).blanked = {24}
    /\ (frame.path \in {"twoTone", "tempHumid"} /\ InTable(frame.values)) =>
         /\ frame.blanked = DocumentedSegs(frame.values)
         /\ \A i \in frame.blanked : IsOff(segs[i + 3])

(* C2 witness: a two-tone pass drew 0 at position 0: of segments 21..27     *)
(* only 24 is off.                                                          *)
C2_Witness ==
  /\ frame.path = "twoTone"
  /\ frame.values[1] = 0
  /\ frame.blanked \cap (21..27) = {24}
  /\ IsOff(segs[24 + 3])
  /\ \A i \in (21..27) \ {24} : segs[i + 3].colors[1] # 0

(* t holds the five properties segCopyProps copies, as src has them. *)
CopiedFrom(t, src) ==
  /\ t.colors[1] = src.colors[1]
  /\ t.mode = src.mode
  /\ t.speed = src.speed
  /\ t.intensity = src.intensity
  /\ t.palette = src.palette

(* The same after the digit step: a segment it turned off is black. *)
CopiedThenDrawn(t, src, off) ==
  /\ t.colors[1] = (IF off THEN 0 ELSE src.colors[1])
  /\ t.mode = src.mode
  /\ t.speed = src.speed
  /\ t.intensity = src.intensity
  /\ t.palette = src.palette

(* C3: in a two-tone pass every display segment i gets colour, effect,      *)
(* speed, intensity and palette from colour source A (strip segment 0) when *)
(* i >= 14 and from B (strip segment 1) when i < 14, before the digits are  *)
(* drawn; afterwards the segments the digits did not turn off still show    *)
(* them.                                                                    *)
C3_TwoToneCopy ==
  /\ (pc = "running" /\ inTwoToneMode) =>
       LET rs == twoToneCopy(RenderStart, 0) IN
       /\ \A i \in 0..27 : CopiedFrom(rs.segs[i + 3], segs[IF i >= 14 THEN 0 ELSE 1])
       /\ \A n \in 0..2 : rs.segs[n] = segs[n]
       /\ rs.blanked = {} /\ rs.wild = wild
  /\ frame.path = "twoTone" =>
       \A i \in 0..27 :
         CopiedThenDrawn(segs[i + 3], segs[IF i >= 14 THEN 0 ELSE 1], i \in frame.blanked)

(* C3 witness: after a two-tone pass segment 20 shows A and segment 5 shows *)
(* B, and A and B differ.                                                   *)
C3_Witness ==
  /\ frame.path = "twoTone"
  /\ 20 \notin frame.blanked /\ 5 \notin frame.blanked
  /\ CopiedFrom(segs[20 + 3], segs[0])
  /\ CopiedFrom(segs[5 + 3], segs[1])
  /\ ~CopiedFrom(segs[20 + 3], segs[1])
  /\ ~CopiedFrom(segs[5 + 3], segs[0])

(* The colour source the claim names for segment i at temperature t. *)
TempHumidDocumented(i, t) == IF i >= 14 THEN (IF t > 0 THEN 0 ELSE 1) ELSE 2

(* C4: in a temperature and humidity pass every display segment i >= 14     *)
(* copies from colour source A when the temperature is > 0 and from B       *)
(* otherwise (0 and negative included), and every segment i < 14 copies     *)
(* from colour source C whatever the temperature.                           *)
C4_TempHumidCopy ==
  /\ (pc = "running" /\ ~inTwoToneMode /\ inTempHumidMode) =>
       \A t \in { sv[1] : sv \in SensorInputs } \cup {currentTemp} :
         LET rs == setTempHumidColors(RenderStart, 0, t) IN
         /\ \A i \in 0..27 : CopiedFrom(rs.segs[i + 3], segs[TempHumidDocumented(i, t)])
         /\ \A n \in 0..2 : rs.segs[n] = segs[n]
  /\ frame.path = "tempHumid" =>
       \A i \in 0..27 :
         CopiedThenDrawn(segs[i + 3], segs[TempHumidDocumented(i, frame.temp)],
                         i \in frame.blanked)

(* C4 witness: a pass at temperature -3: segment 20 shows B, segment 5      *)
(* shows C.                                                                 *)
C4_Witness ==
  /\ frame.path = "tempHumid"
  /\ frame.temp = -3
  /\ 20 \notin frame.blanked /\ 5 \notin frame.blanked
  /\ CopiedFrom(segs[20 + 3], segs[1]) /\ ~CopiedFrom(segs[20 + 3], segs[0])
  /\ CopiedFrom(segs[5 + 3], segs[2]) /\ ~CopiedFrom(segs[5 + 3], segs[1])

(* C5 as claimed: with the Manual flag set, a two-tone pass and a           *)
(* temperature and humidity pass both draw the four configured digits.      *)
C5_Original ==
  (frame.path \in {"twoTone", "tempHumid"} /\ inManualMode) =>
    /\ frame.values = digitValue
    /\ InTable(digitValue) => frame.blanked = DocumentedSegs(digitValue)

(* C5 amended: with the Manual flag set, a two-tone pass draws the four     *)
(* configured digits (their glyphs when each is in 0..9) whatever the clock *)
(* and the sensor read; a temperature and humidity pass does not consult    *)
(* the flag and draws the tens and units of temperature and humidity.       *)
C5_ManualTwoTone ==
  /\ (frame.path = "twoTone" /\ inManualMode) =>
       /\ frame.values = digitValue
       /\ InTable(digitValue) => frame.blanked = DocumentedSegs(digitValue)
  /\ frame.path = "tempHumid" =>
       frame.values = <<CDiv(frame.temp, 10), CMod(frame.temp, 10),
                        CDiv(frame.humid, 10), CMod(frame.humid, 10)>>

(* C5 witness: a two-tone pass in manual mode drew 1, 2, 3, 4. *)
C5_Witness ==
  /\ frame.path = "twoTone" /\ inManualMode
  /\ digitValue = <<1, 2, 3, 4>>
  /\ frame.values = <<1, 2, 3, 4>>
  /\ frame.blanked = DocumentedSegs(<<1, 2, 3, 4>>)

SeriesOnly == inSeriesMode /\ ~inTwoToneMode /\ ~inTempHumidMode

(* The LEDs of the display segments S in the flat wiring. *)
LedsOf(S) == UNION { { 3 + 3 * sg, 3 + 3 * sg + 1, 3 + 3 * sg + 2 } : sg \in S }

(* C6 as claimed: with Series the only primary mode, the digits             *)
(* handleOverlayDraw draws are those drawn with the Manual flag clear: the  *)
(* digits of some clock reading.                                            *)
C6_Original ==
  (frame.path = "series" /\ SeriesOnly) =>
    frame.values \in { displayTimeValues(FALSE, inSecsMinsMode, digitValue,
                                         c[1], c[2], c[3]) : c \in ClockInputs }

(* C6 amended: the series path does consult the Manual flag (inSeries       *)
(* calls displayTime): with Series the only primary mode, handleOverlayDraw *)
(* draws the four configured digits when the flag is set and the digits of  *)
(* the clock when it is clear.                                              *)
C6_SeriesManual ==
  (frame.path = "series" /\ SeriesOnly) =>
    /\ inManualMode => frame.values = digitValue
    /\ ~inManualMode =>
         /\ frame.values \in { displayTimeValues(FALSE, inSecsMinsMode, digitValue,
                                                 c[1], c[2], c[3]) : c \in ClockInputs }
         /\ frame.values = displayTimeValues(FALSE, inSecsMinsMode, digitValue,
                                             currentHour, currentMin, currentSec)
    /\ InTable(frame.values) =>
         frame.dark = LedsOf(DocumentedSegs(frame.values)) /\ frame.blanked = {}

(* C6 witness: a series pass in manual mode blacked the LEDs of 1, 2, 3, 4. *)
C6_Witness ==
  /\ frame.path = "series" /\ SeriesOnly /\ inManualMode
  /\ frame.values = <<1, 2, 3, 4>>
  /\ frame.dark = LedsOf(DocumentedSegs(<<1, 2, 3, 4>>))
  /\ frame.dark # {}


(* The two wirings, as LED ranges per strip segment id. *)
FlatLayout == [n \in SegIds |-> IF n = 0 THEN <<3, 3 + 28 * 3>> ELSE <<0, 0>>]
SegmentedLayout ==
  [n \in SegIds |-> IF n < 3 THEN <<n, n + 1>> ELSE <<3 + 3 * (n - 3), 6 + 3 * (n - 3)>>]

HandlesFetched ==
  /\ segments = [i \in 0..27 |-> i + 3]
  /\ firstSeg = 0 /\ secondSeg = 1 /\ thirdSeg = 2

(* C7: every configuration update in which the Series flag goes from off to *)
(* on leaves the strip in the flat layout, one range of LEDs 3 .. 3 + 28*3, *)
(* whatever the other flags are and do in that update.                      *)
C7_SeriesOnRewiresFlat ==
  [][ (pc = "running" /\ ~inSeriesMode /\ inSeriesMode') => (ranges' = FlatLayout) ]_vars

(* C7 witness: an update turned Series and TwoTone on together and the      *)
(* strip is in the flat layout.                                             *)
C7_Witness ==
  /\ lastCfg.name = "readFromConfig"
  /\ lastCfg.seriesOn /\ lastCfg.twoToneOn
  /\ lastCfg.rewire = "flat"
  /\ ranges = FlatLayout

(* C8 as claimed: every configuration update in which the TwoTone or the    *)
(* TempHumid flag goes from off to on leaves the strip in the segmented     *)
(* layout with the handles fetched, whatever the other flags do.            *)
C8_Claim ==
  [][ (pc = "running" /\ ((~inTwoToneMode /\ inTwoToneMode')
                          \/ (~inTempHumidMode /\ inTempHumidMode')))
        => (ranges' = SegmentedLayout /\ HandlesFetched') ]_vars

(* C9 as claimed: at most one of the TwoTone, Series and TempHumid flags is *)
(* set in any reachable state.                                              *)
C9_Claim ==
  Cardinality({ k \in 1..3 : <<inTwoToneMode, inSeriesMode, inTempHumidMode>>[k] }) <= 1

(* C10 as claimed: two reads of the sensor driver are at least 10000 ms     *)
(* apart, the read of setup and the first read after it included.           *)
C10_Claim ==
  Len(readTimes) = 2 => readTimes[2] - readTimes[1] >= 10000

(* A step in which readTempAndHumid is called: connected(), or loop() in    *)
(* the temperature and humidity mode.                                       *)
ReadTempAndHumidCalled ==
  \/ Connected(TimedClocks, TimedSensors)
  \/ (~inTwoToneMode /\ inTempHumidMode /\ Loop(TimedClocks, TimedSensors))

(* C11 as claimed: a call of readTempAndHumid less than 10000 ms after the  *)
(* previous read of the sensor reads nothing and keeps the cached values; a *)
(* call 10000 ms or more after it, exactly 10000 ms included, reads the     *)
(* sensor.                                                                  *)
C11_Claim ==
  [][ (readTimes # <<>> /\ ReadTempAndHumidCalled) =>
        LET prev == readTimes[Len(readTimes)] IN
        /\ (now - prev < 10000) =>
             UNCHANGED <<currentTemp, currentHumid, lastDHT11TimeRead, readTimes>>
        /\ (now - prev >= 10000) =>
             /\ lastDHT11TimeRead' = now
             /\ readTimes' = Last2(Append(readTimes, now))
             /\ <<currentTemp', currentHumid'>> \in TimedSensors ]_vars

(* C12: saving the configuration and loading what was saved restores the    *)
(* five mode flags and the four digit values as they were, for every        *)
(* setting of them, reports the configuration complete, and re-wires        *)
(* nothing: ranges and handles stay as they are.                            *)
C12_RoundTrip ==
  [][ SaveThenLoad =>
        /\ UNCHANGED <<flagVars, digitValue, lastVars, ranges, handleVars>>
        /\ lastCfg'.complete
        /\ lastCfg'.rewire = "none" ]_vars

(* C12 witness: a save and load with TwoTone and Series set and the digit   *)
(* values 0, 12, -1, 9 was complete and re-wired nothing.                   *)
C12_Witness ==
  /\ lastCfg.name = "saveLoad"
  /\ lastCfg.complete /\ lastCfg.rewire = "none"
  /\ inTwoToneMode /\ inSeriesMode
  /\ digitValue = <<0, 12, -1, 9>>

(* The fields of a stored configuration, in the order readFromConfig reads  *)
(* them, and the value each has in the state.                               *)
CfgField(cfg, k) ==
  CASE k = 1 -> cfg.tt
    [] k = 2 -> cfg.ser
    [] k = 3 -> cfg.sm
    [] k = 4 -> cfg.man
    [] k \in 5..8 -> cfg.d[k - 4]
    [] k = 9 -> cfg.th

SettingsNow ==
  <<inTwoToneMode, inSeriesMode, inSecsMinsMode, inManualMode,
    digitValue[1], digitValue[2], digitValue[3], digitValue[4], inTempHumidMode>>

(* C13: readFromConfig reports the configuration complete exactly when the  *)
(* section and all nine fields are present; every absent field keeps the    *)
(* value it had before the call (all nine when the section is absent) and   *)
(* every present field takes the stored value.                              *)
C13_AbsentKeepsValue ==
  [][ \A cfg \in CfgInputs :
        ReadFromConfig({cfg}) =>
          /\ lastCfg'.complete = (cfg.top /\ \A k \in 1..9 : CfgField(cfg, k) # {})
          /\ \A k \in 1..9 :
               IF CfgField(cfg, k) = {} THEN SettingsNow'[k] = SettingsNow[k]
               ELSE SettingsNow'[k] \in CfgField(cfg, k)
          /\ ~cfg.top => (SettingsNow' = SettingsNow /\ ~lastCfg'.complete) ]_vars

(* C13 witness: a configuration without "Digit3 value" was read over the    *)
(* defaults: incomplete, digit2Value still 0, the other digits 1, 2, 4.     *)
C13_Witness ==
  /\ lastCfg.name = "readFromConfig"
  /\ ~lastCfg.complete
  /\ digitValue = <<1, 2, 0, 4>>

(* C14: with the Manual flag clear, displayTime draws at positions 0..3     *)
(* hour div 10, hour mod 10, minute div 10, minute mod 10 in the clock mode *)
(* and minute div 10, minute mod 10, second div 10, second mod 10 in the    *)
(* secs-mins mode, for every hour in 0..23 and minute and second in 0..59;  *)
(* tens * 10 + units gives the value back and every digit is in 0..9.       *)
C14_ClockDigits ==
  /\ { c[1] : c \in AllClocks } = 0..23
  /\ { c[2] : c \in AllClocks } = 0..59
  /\ { c[3] : c \in AllClocks } = 0..59
  /\ \A c \in AllClocks, sm \in BOOLEAN :
       LET v == displayTimeValues(FALSE, sm, digitValue, c[1], c[2], c[3])
           a == IF sm THEN c[2] ELSE c[1]
           b == IF sm THEN c[3] ELSE c[2]
       IN /\ v = <<a \div 10, a % 10, b \div 10, b % 10>>
          /\ v[1] * 10 + v[2] = a /\ v[3] * 10 + v[4] = b
          /\ InTable(v)
  /\ (frame.path \in {"twoTone", "series"} /\ ~inManualMode) =>
       LET v == frame.values
           a == IF inSecsMinsMode THEN currentMin ELSE currentHour
           b == IF inSecsMinsMode THEN currentSec ELSE currentMin
       IN /\ v = <<a \div 10, a % 10, b \div 10, b % 10>>
          /\ v[1] * 10 + v[2] = a /\ v[3] * 10 + v[4] = b
          /\ InTable(v)
          /\ Drawn(frame) = DocumentedSegs(v)

(* C14 witness: a two-tone pass in the secs-mins mode at 11:59:00 drew      *)
(* 5, 9, 0, 0.                                                              *)
C14_Witness ==
  /\ frame.path = "twoTone" /\ ~inManualMode /\ inSecsMinsMode
  /\ currentHour = 11 /\ currentMin = 59 /\ currentSec = 0
  /\ frame.values = <<5, 9, 0, 0>>
  /\ frame.blanked = DocumentedSegs(<<5, 9, 0, 0>>)

(* The LEDs of range n of the layout r. *)
RangeLeds(r, n) == r[n][1]..(r[n][2] - 1)

(* C15: the segmented wiring setSegments(3, 28) applied twice gives the     *)
(* ranges it gives applied once: ranges 0..2 of one LED each, range 3 + i   *)
(* the LEDs [3 + 3i, 6 + 3i) for i in 0..27, each range starting where the  *)
(* one before ends and no LED in two ranges; the flat wiring of the series  *)
(* mode applied twice gives the one range it gives applied once.  Every     *)
(* re-wiring of setup and readFromConfig ends in one of the two layouts.    *)
C15_RewireIdempotent ==
  pc = "running" =>
    LET once == setSegments(ranges, ADDR_LEDS_PER_SEG, NUM_OF_SEGMENTS)
        twice == setSegments(once, ADDR_LEDS_PER_SEG, NUM_OF_SEGMENTS)
    IN /\ twice = once
       /\ \A n \in 0..2 : once[n] = <<n, n + 1>>
       /\ \A i \in 0..27 : once[3 + i] = <<3 + 3 * i, 6 + 3 * i>>
       /\ \A n \in 1..30 : once[n][1] = once[n - 1][2]
       /\ \A n, k \in SegIds : n # k => RangeLeds(once, n) \cap RangeLeds(once, k) = {}
       /\ wireFlat(wireFlat(ranges)) = wireFlat(ranges)
       /\ wireFlat(ranges) = FlatLayout
       /\ lastCfg.rewire = "segmented" => ranges = once
       /\ lastCfg.rewire = "flat" => ranges = wireFlat(ranges)

(* C15 witness: after the segmented wiring of setup, a configuration update *)
(* that turned TwoTone on wired segmented again, and wiring once more       *)
(* changes nothing.                                                         *)
C15_Witness ==
  /\ lastCfg.name = "readFromConfig"
  /\ lastCfg.rewire = "segmented" /\ lastCfg.twoToneOn
  /\ ranges = SegmentedLayout
  /\ setSegments(ranges, ADDR_LEDS_PER_SEG, NUM_OF_SEGMENTS) = ranges

(* C16 as claimed: whenever a two-tone or a temperature and humidity pass   *)
(* has run, the strip is in the segmented layout (the most recent wiring    *)
(* was the segmented one, no resetSegments after it) and the handles are    *)
(* those fetched from it.                                                   *)
C16_Claim ==
  frame.path \in {"twoTone", "tempHumid"} =>
    (ranges = SegmentedLayout /\ HandlesFetched)

(* C17 as claimed: after setup and any configuration updates, with TwoTone  *)
(* or TempHumid set and Series clear the strip is in the segmented layout,  *)
(* and with Series set and TwoTone and TempHumid clear it is in the flat    *)
(* layout.                                                                  *)
C17_Claim ==
  pc = "running" =>
    /\ ((inTwoToneMode \/ inTempHumidMode) /\ ~inSeriesMode) => ranges = SegmentedLayout
    /\ (inSeriesMode /\ ~inTwoToneMode /\ ~inTempHumidMode) => ranges = FlatLayout

(* C18 as claimed: on every render path the four values setDigit indexes    *)
(* DIGITS with are in 0..9.                                                 *)
C18_Claim ==
  frame.path # "none" => InTable(frame.values)

(* C20 as claimed: after a two-tone or a temperature and humidity pass a    *)
(* display segment is off (three colours black, option 0 clear) exactly     *)
(* when the pass turned it off, and every other display segment is fully    *)
(* on: option 0 set, its second and third colour as they were before any    *)
(* pass.                                                                    *)
C20_Claim ==
  (frame.path \in {"twoTone", "tempHumid"} /\ InTable(frame.values)) =>
    \A i \in 0..27 :
      IF i \in frame.blanked THEN IsOff(segs[i + 3])
      ELSE /\ ~IsOff(segs[i + 3])
           /\ segs[i + 3].opt0
           /\ segs[i + 3].colors[2] = DisplayProps.colors[2]
           /\ segs[i + 3].colors[3] = DisplayProps.colors[3]

(* The LEDs of the display segments S in the layout r, through the handles  *)
(* getSegments fetches.                                                     *)
LedsThroughHandles(r, S) ==
  LET h == getSegments(NUM_OF_SEGMENTS) IN UNION { RangeLeds(r, h[sg]) : sg \in S }

(* C19: for every position d in 0..3 and value v in 0..9, the LEDs          *)
(* turnOffSegPixels blacks for a segment s that setDigit(d, v) turns off,   *)
(* 3 + 3s .. 3 + 3s + 2, are the LEDs of the range the segmented wiring     *)
(* gives to segment s; so a pass that draws four values by pixels (the      *)
(* series branch of setDigit) and a pass that draws them by segments on the *)
(* segmented wiring darken the same LEDs, all within 3..86.                 *)
C19_SamePhysicalLeds ==
  LET wired == setSegments(ranges, ADDR_LEDS_PER_SEG, NUM_OF_SEGMENTS) IN
  /\ pc = "running" =>
       \A d \in 0..3, v \in 0..9 :
         \A o \in SeqToSet(BlankList(DIGITS[v + 1])) :
           LET s == DigitIndex(d) + o
               px == turnOffSegPixels(RenderStart, s).dark
           IN /\ px = LedsThroughHandles(wired, {s})
              /\ px = { 3 + 3 * s, 3 + 3 * s + 1, 3 + 3 * s + 2 }
              /\ px \subseteq 3..86
  /\ (frame.path # "none" /\ InTable(frame.values) /\ ~SegmentPath) =>
       /\ frame.dark = LedsThroughHandles(wired, DocumentedSegs(frame.values))
       /\ frame.dark \subseteq 3..86
  /\ (frame.path # "none" /\ InTable(frame.values) /\ SegmentPath
        /\ ranges = SegmentedLayout /\ HandlesFetched) =>
       /\ UNION { RangeLeds(ranges, segments[sg]) : sg \in frame.blanked }
            = LedsOf(DocumentedSegs(frame.values))
       /\ LedsOf(DocumentedSegs(frame.values))
            = LedsThroughHandles(wired, DocumentedSegs(frame.values))
       /\ LedsOf(DocumentedSegs(frame.values)) \subseteq 3..86

(* C19 witness: a series pass at 23:59 blacked the LEDs that the segmented  *)
(* wiring gives to the segments of 2, 3, 5, 9.                              *)
C19_Witness ==
  /\ frame.path = "series" /\ ~inManualMode /\ ~SegmentPath
  /\ frame.values = <<2, 3, 5, 9>>
  /\ frame.dark = LedsThroughHandles(SegmentedLayout, DocumentedSegs(<<2, 3, 5, 9>>))
  /\ Cardinality(frame.dark) = 3 * Cardinality(DocumentedSegs(<<2, 3, 5, 9>>))

====
